---- MODULE Spec2Model ----
(***************************************************************************)
(* Model of the multimodal bridge of node-llama-cpp                        *)
(* (llama/addon/globals/addonMultimodal.cpp): the MultiBitmap and          *)
(* MultiBitmaps wrappers and the free functions initMultimodalBitmap-      *)
(* FromBuffer, createMultimodalBitmaps, multimodalTokenize,                *)
(* multimodalEvaluateChunks and multimodalTokenizeAndEvaluate.             *)
(*                                                                         *)
(* Every handler is one atomic action (the bridge is synchronous).  The    *)
(* external mtmd_* / llama library is a black box: each of its calls is a  *)
(* choice over the outcomes its C interface allows.  A native bitmap       *)
(* handle is a positive integer, 0 is the null pointer.                    *)
(***************************************************************************)
EXTENDS Integers, Sequences, FiniteSets, TLC

\* ---------------------------------------------------------------- bounds
MaxBitmaps == 1      \* MultiBitmap wrapper objects the host creates
MaxHandles == 3      \* native bitmap handles the library hands out
MaxPos == 1          \* largest position the evaluator reports
MaxChunkLists == 1   \* native chunk lists that may stay unreleased

BytesPerPixel == 3

BitmapIds == 1..MaxBitmaps
Handles == 1..MaxHandles
NullPtr == 0

\* Raw buffers the host passes to initMultimodalBitmapFromBuffer.
Buffers == {"corrupt", "image"}
\* Strings the host passes to setId.
IdStrings == {"a"}
\* Arguments of setId: none, a non-string, or a string.
SetIdArgs == {[kind |-> "missing", str |-> ""], [kind |-> "number", str |-> ""]}
               \cup {[kind |-> "string", str |-> s] : s \in IdStrings}

VARIABLES
    ctx,              \* AddonContext::ctx is non-null
    disposed,         \* AddonContext::disposed
    multimodal_ctx,   \* AddonContext::multimodal_ctx is non-null
    n_cur,            \* AddonContext::n_cur, the session position counter
    wrappers,         \* the MultiBitmap objects the host holds
    bitmap_wrapper,   \* MultiBitmap::bitmap_wrapper.ptr of each object
    collection,       \* a MultiBitmaps object exists
    entries,          \* MultiBitmaps::bitmaps_collection_cpp_wrapper.entries
    heap,             \* the native bitmaps behind the handles
    live_chunks,      \* native chunk lists allocated and not yet freed
    adds,             \* history: successful addBitmap calls since create/dispose
    chain,            \* history: the successful tokenizeAndEvaluate calls so far
    last              \* what the last bridge call did and returned

vars == <<ctx, disposed, multimodal_ctx, n_cur, wrappers, bitmap_wrapper,
          collection, entries, heap, live_chunks, adds, chain, last>>

session == <<ctx, disposed, multimodal_ctx>>
bitmapState == <<wrappers, bitmap_wrapper, collection, entries, heap>>

\* ------------------------------------------------------- errors, results
NoError == [type |-> "none", msg |-> "", code |-> 0]
Err(type, msg) == [type |-> type, msg |-> msg, code |-> 0]
ErrCode(type, msg, code) == [type |-> type, msg |-> msg, code |-> code]

Undefined == <<>>
Value(v) == <<v>>

\* One external native call: the function, the status or pointer it returned
\* (0 where it returns nothing of interest) and the value it left in its
\* output parameter (0 where it has none or the model does not follow it).
Native(fn, ret, out) == [fn |-> fn, ret |-> ret, out |-> out]
N(fn) == Native(fn, 0, 0)

\* The record of one bridge call: the operation, the object or argument it
\* was given (and the kind of its argument), the error it raised (or NoError), the value it returned
\* (Undefined when it raised), the external native calls it made in order,
\* and the counter value at its entry.
Call(op, target, arg, error, ret, calls) ==
    [op |-> op, target |-> target, arg |-> arg, error |-> error, ret |-> ret,
     calls |-> calls, n_before |-> n_cur]

\* --------------------------------------------------------- native bitmaps
Unallocated == [state |-> "unalloc", nx |-> 0, ny |-> 0, data |-> <<>>, id |-> <<>>]

Live(h) == heap[h].state = "live"

\* The next handle the library hands out, NullPtr when it has none left.
FreshHandle ==
    IF \E h \in Handles : heap[h].state = "unalloc"
    THEN CHOOSE h \in Handles :
            /\ heap[h].state = "unalloc"
            /\ \A g \in Handles : heap[g].state = "unalloc" => h <= g
    ELSE NullPtr

\* mtmd_helper_bitmap_init_from_buf: the decoded image (2 x 1 pixels, 3 bytes
\* each, no id), or no image when the decoder rejects the buffer.
Decoded(buf) ==
    IF buf = "image"
    THEN [state |-> "live", nx |-> 2, ny |-> 1,
          data |-> <<20, 21, 22, 23, 24, 25>>, id |-> <<>>]
    ELSE Unallocated

\* mtmd_bitmap_init(nx, ny, data): a new bitmap holding a copy of the first
\* nx * ny * 3 bytes of data, with no id.
mtmd_bitmap_init(nx, ny, data) ==
    [state |-> "live", nx |-> nx, ny |-> ny,
     data |-> SubSeq(data, 1, nx * ny * BytesPerPixel), id |-> <<>>]

\* mtmd_bitmap_free on every handle of hs (the unique_ptr deleter).
Released == [state |-> "freed", nx |-> 0, ny |-> 0, data |-> <<>>, id |-> <<>>]
Freed(hp, hs) == [h \in Handles |-> IF h \in hs THEN Released ELSE hp[h]]

Range(s) == {s[i] : i \in 1..Len(s)}

\* ------------------------------------------------------------------ Init
Init ==
    /\ ctx \in BOOLEAN
    /\ disposed \in BOOLEAN
    /\ multimodal_ctx \in BOOLEAN
    /\ n_cur = 0
    /\ wrappers = {}
    /\ bitmap_wrapper = [b \in BitmapIds |-> NullPtr]
    /\ collection = FALSE
    /\ entries = <<>>
    /\ heap = [h \in Handles |-> Unallocated]
    /\ live_chunks = 0
    /\ adds = 0
    /\ chain = [initial |-> n_cur, newSequenceLength |-> n_cur, tokensProcessed |-> 0]
    /\ last = Call("none", 0, "", NoError, Undefined, <<>>)

\* ------------------------------------------------------------ MultiBitmap
\* A MultiBitmap object reaches the host bound, from
\* initMultimodalBitmapFromBuffer; one made with the exported constructor is
\* in the state of a disposed one (its pointer is null).
DisposedError == Err("Error", "Bitmap has been disposed or was not initialized")

GetDataResult(b) ==
    LET p == bitmap_wrapper[b] IN
    IF p = NullPtr
    THEN Call("getData", b, "", DisposedError, Undefined, <<>>)
    ELSE Call("getData", b, "", NoError,
              Value(SubSeq(heap[p].data, 1, heap[p].nx * heap[p].ny * BytesPerPixel)),
              <<N("mtmd_bitmap_get_data"), N("mtmd_bitmap_get_nx"), N("mtmd_bitmap_get_ny")>>)

GetData(b) ==
    /\ last' = GetDataResult(b)
    /\ UNCHANGED <<session, n_cur, chain, bitmapState, adds, live_chunks>>

GetDimensionsResult(b) ==
    LET p == bitmap_wrapper[b] IN
    IF p = NullPtr
    THEN Call("getDimensions", b, "", DisposedError, Undefined, <<>>)
    ELSE Call("getDimensions", b, "", NoError,
              Value([width |-> heap[p].nx, height |-> heap[p].ny]),
              <<N("mtmd_bitmap_get_nx"), N("mtmd_bitmap_get_ny")>>)

GetDimensions(b) ==
    /\ last' = GetDimensionsResult(b)
    /\ UNCHANGED <<session, n_cur, chain, bitmapState, adds, live_chunks>>

GetIdResult(b) ==
    LET p == bitmap_wrapper[b] IN
    IF p = NullPtr
    THEN Call("getId", b, "", DisposedError, Undefined, <<>>)
    ELSE Call("getId", b, "", NoError, Value(heap[p].id), <<N("mtmd_bitmap_get_id")>>)

GetId(b) ==
    /\ last' = GetIdResult(b)
    /\ UNCHANGED <<session, n_cur, chain, bitmapState, adds, live_chunks>>

\* The checks of SetId in the order the handler makes them: the error it
\* raises, or NoError when it goes on to mtmd_bitmap_set_id.
SetIdCheck_ArgFirst(b, arg) ==
    IF arg.kind # "string"
    THEN Err("TypeError", "String argument expected for ID")
    ELSE IF bitmap_wrapper[b] = NullPtr THEN DisposedError ELSE NoError

SetIdCheck(b, arg) ==
    IF bitmap_wrapper[b] = NullPtr
    THEN DisposedError
    ELSE IF arg.kind # "string"
         THEN Err("TypeError", "String argument expected for ID")
         ELSE NoError

SetId(b, arg) ==
    /\ LET e == SetIdCheck(b, arg)
           p == bitmap_wrapper[b]
       IN  IF e # NoError
           THEN /\ last' = Call("setId", b, arg.kind, e, Undefined, <<>>)
                /\ UNCHANGED heap
           ELSE /\ heap' = [heap EXCEPT ![p].id = <<arg.str>>]
                /\ last' = Call("setId", b, arg.kind, NoError, Undefined,
                                <<N("mtmd_bitmap_set_id")>>)
    /\ UNCHANGED <<session, n_cur, chain, wrappers, bitmap_wrapper, collection, entries, adds,
                   live_chunks>>

\* bitmap_wrapper.ptr.reset(): the deleter frees the handle held, if any, and
\* the pointer is null afterwards.
ResetPtr_KeepsPointer(b) ==
    /\ heap' = Freed(heap, {bitmap_wrapper[b]} \ {NullPtr})
    /\ bitmap_wrapper' = bitmap_wrapper

ResetPtr(b) ==
    /\ heap' = Freed(heap, {bitmap_wrapper[b]} \ {NullPtr})
    /\ bitmap_wrapper' = [bitmap_wrapper EXCEPT ![b] = NullPtr]

Dispose(b) ==
    /\ ResetPtr(b)
    /\ last' = Call("dispose", b, "", NoError, Undefined,
                    IF bitmap_wrapper[b] = NullPtr THEN <<>> ELSE <<N("mtmd_bitmap_free")>>)
    /\ UNCHANGED <<session, n_cur, chain, wrappers, collection, entries, adds, live_chunks>>

\* ----------------------------------------------------------- MultiBitmaps
\* createMultimodalBitmaps(): a new, empty collection.
CreateMultimodalBitmaps ==
    /\ ~collection
    /\ collection' = TRUE
    /\ entries' = <<>>
    /\ adds' = 0
    /\ last' = Call("createMultimodalBitmaps", 0, "", NoError, Value("MultiBitmaps"), <<>>)
    /\ UNCHANGED <<session, n_cur, chain, wrappers, bitmap_wrapper, heap, live_chunks>>

\* What the host passes to addBitmap: nothing or a non-object (0), or one of
\* its MultiBitmap objects.
AddArgs == {0} \cup wrappers

\* The argument checks of AddBitmap, made before any native call.
AddBitmapCheck(arg) ==
    IF arg = 0
    THEN Err("TypeError", "MultiBitmap object expected")
    ELSE IF bitmap_wrapper[arg] = NullPtr
         THEN Err("TypeError", "Invalid or uninitialized MultiBitmap object")
         ELSE NoError

\* The native bitmap AddBitmap builds for the collection from the original:
\* mtmd_bitmap_init on its dimensions and data, then its id if it has one.
CopyOf(orig) ==
    LET c == mtmd_bitmap_init(orig.nx, orig.ny, orig.data) IN
    IF orig.id # <<>> THEN [c EXCEPT !.id = orig.id] ELSE c

\* The handle AddBitmap stores in the collection: the new native bitmap.
StoredHandle_Alias(original, copy) == original

StoredHandle(original, copy) == copy

\* copyOk: mtmd_bitmap_init returns a bitmap (it has a handle left to give).
AddBitmap(arg, copyOk) ==
    /\ collection
    /\ AddBitmapCheck(arg) # NoError => ~copyOk
    /\ copyOk => FreshHandle # NullPtr
    /\ LET e == AddBitmapCheck(arg)
           reads == <<N("mtmd_bitmap_get_nx"), N("mtmd_bitmap_get_ny"),
                      N("mtmd_bitmap_get_data")>>
       IN  IF e # NoError
           THEN /\ last' = Call("addBitmap", arg, "", e, Undefined, <<>>)
                /\ UNCHANGED <<entries, heap>>
           ELSE IF ~copyOk
           THEN /\ last' = Call("addBitmap", arg, "",
                                Err("Error", "Failed to create a copy of the bitmap for the collection"),
                                Undefined, reads \o <<Native("mtmd_bitmap_init", NullPtr, 0)>>)
                /\ UNCHANGED <<entries, heap>>
           ELSE LET p == bitmap_wrapper[arg]
                    h == FreshHandle
                IN  /\ heap' = [heap EXCEPT ![h] = CopyOf(heap[p])]
                    /\ entries' = Append(entries, StoredHandle(p, h))
                    /\ last' = Call("addBitmap", arg, "", NoError, Undefined,
                                    reads \o <<Native("mtmd_bitmap_init", h, 0),
                                               N("mtmd_bitmap_get_id")>>
                                     \o (IF heap[p].id # <<>>
                                         THEN <<N("mtmd_bitmap_set_id")>> ELSE <<>>))
    /\ adds' = IF last'.error = NoError THEN adds + 1 ELSE adds
    /\ UNCHANGED <<session, n_cur, chain, wrappers, bitmap_wrapper, collection, live_chunks>>

GetBitmapCount ==
    /\ collection
    /\ last' = Call("getBitmapCount", 0, "", NoError, Value(Len(entries)), <<>>)
    /\ UNCHANGED <<session, n_cur, chain, bitmapState, adds, live_chunks>>

\* entries.clear(): every owned bitmap is destroyed.
Cleared_KeepsEntries(es) == es

Cleared(es) == <<>>

DisposeBitmaps ==
    /\ collection
    /\ heap' = Freed(heap, Range(entries))
    /\ entries' = Cleared(entries)
    /\ adds' = 0
    /\ last' = Call("disposeBitmaps", 0, "", NoError, Undefined,
                    [i \in 1..Len(entries) |-> N("mtmd_bitmap_free")])
    /\ UNCHANGED <<session, n_cur, chain, wrappers, bitmap_wrapper, collection, live_chunks>>

\* ------------------------------------------------------ session arguments
\* The first argument of a bridge function: nothing or a non-object, an
\* object that is no AddonContext, or the session's AddonContext.
CtxArgs == {"missing", "foreign", "context"}
\* The prompt text argument: a string or not.
TextArgs == {"missing", "string"}
\* The MultiBitmaps argument: nothing or a non-object, an object that is no
\* MultiBitmaps, or the collection.
BitmapsArgs == {"missing", "foreign"} \cup (IF collection THEN {"collection"} ELSE {})

\* The arguments of tokenize and tokenizeAndEvaluate the model draws: all
\* valid, or with one of them invalid.
Invalid(a) ==
    (IF a.c # "context" THEN 1 ELSE 0) + (IF a.t # "string" THEN 1 ELSE 0)
      + (IF a.bm # "collection" THEN 1 ELSE 0)
PromptArgs == {a \in [c : CtxArgs, t : TextArgs, bm : BitmapsArgs] : Invalid(a) <= 1}

MctxNullError(type) ==
    Err(type, "Multimodal context (mctx) is null in the context")

\* ------------------------------------------- initMultimodalBitmapFromBuffer
\* The checks made before the decoder is called.
InitBitmapCheck_NoMctxCheck(c, isBuffer) ==
    IF c = "missing" \/ ~isBuffer
    THEN Err("TypeError", "Expected context object and buffer as arguments")
    ELSE IF c = "foreign"
         THEN Err("Error", "Failed to unwrap AddonContext object for bitmap initialization")
         ELSE NoError

InitBitmapCheck(c, isBuffer) ==
    IF c = "missing" \/ ~isBuffer
    THEN Err("TypeError", "Expected context object and buffer as arguments")
    ELSE IF c = "foreign"
         THEN Err("Error", "Failed to unwrap AddonContext object for bitmap initialization")
         ELSE IF ~multimodal_ctx
              THEN Err("Error", "Multimodal context is not initialized")
              ELSE NoError

InitMultimodalBitmapFromBuffer(c, isBuffer, buf) ==
    /\ c = "context" \/ isBuffer
    /\ InitBitmapCheck(c, isBuffer) # NoError => buf = "corrupt"
    /\ LET e == InitBitmapCheck(c, isBuffer) IN
       IF e # NoError
       THEN /\ last' = Call("initBitmapFromBuffer", 0, c, e, Undefined, <<>>)
            /\ UNCHANGED <<wrappers, bitmap_wrapper, heap>>
       ELSE IF Decoded(buf).state # "live"
            THEN /\ last' = Call("initBitmapFromBuffer", 0, c,
                                 Err("Error", "Failed to initialize bitmap from buffer"),
                                 Undefined,
                                 <<Native("mtmd_helper_bitmap_init_from_buf", NullPtr, 0)>>)
                 /\ UNCHANGED <<wrappers, bitmap_wrapper, heap>>
            ELSE \E b \in BitmapIds :
                 /\ b \notin wrappers
                 /\ \A o \in BitmapIds : o < b => o \in wrappers
                 /\ FreshHandle # NullPtr
                 /\ heap' = [heap EXCEPT ![FreshHandle] = Decoded(buf)]
                 /\ wrappers' = wrappers \cup {b}
                 /\ bitmap_wrapper' = [bitmap_wrapper EXCEPT ![b] = FreshHandle]
                 /\ last' = Call("initBitmapFromBuffer", b, c, NoError, Value(b),
                                 <<Native("mtmd_helper_bitmap_init_from_buf", FreshHandle, 0)>>)
    /\ UNCHANGED <<session, n_cur, chain, collection, entries, adds, live_chunks>>

\* ------------------------------------------------------------ chunk lists
MTMD_INPUT_CHUNK_TYPE_TEXT == 0
MTMD_INPUT_CHUNK_TYPE_IMAGE == 1

TextChunk(toks) ==
    [type |-> MTMD_INPUT_CHUNK_TYPE_TEXT, tokens |-> toks, image |-> <<>>]
ImageChunk(n, nx, ny, id, npos) ==
    [type |-> MTMD_INPUT_CHUNK_TYPE_IMAGE, tokens |-> <<>>,
     image |-> <<[n_tokens |-> n, nx |-> nx, ny |-> ny, id |-> id, n_pos |-> npos]>>]

\* The chunk lists mtmd_tokenize may fill in when it returns 0.
TokenizerOutputs ==
    { <<>>,
      <<TextChunk(<<7, 8>>)>>,
      <<TextChunk(<<7>>), ImageChunk(4, 2, 2, <<"a">>, 4), TextChunk(<<9, 8>>)>>,
      <<ImageChunk(2, 2, 1, <<>>, 1), TextChunk(<<5>>)>> }

\* The status codes of mtmd_tokenize.
TokenizeStatuses == {0, 1, 2}

\* One native chunk as the object multimodalTokenize returns for it.
JsChunk(c) ==
    IF c.type = MTMD_INPUT_CHUNK_TYPE_TEXT
    THEN [type |-> c.type, tokens |-> Value(c.tokens), imageInfo |-> Undefined]
    ELSE IF c.type = MTMD_INPUT_CHUNK_TYPE_IMAGE /\ c.image # <<>>
         THEN [type |-> c.type, tokens |-> Undefined,
               imageInfo |-> Value([tokenCount |-> c.image[1].n_tokens,
                                    nx |-> c.image[1].nx, ny |-> c.image[1].ny,
                                    id |-> c.image[1].id, nPos |-> c.image[1].n_pos])]
         ELSE [type |-> c.type, tokens |-> Undefined, imageInfo |-> Undefined]

JsChunks_Reversed(chunks) ==
    [i \in 1..Len(chunks) |-> JsChunk(chunks[Len(chunks) + 1 - i])]

JsChunks(chunks) == [i \in 1..Len(chunks) |-> JsChunk(chunks[i])]

\* How many of the chunk lists a call allocated are still allocated when it
\* returns: its mtmd_input_chunks_init calls that returned a list, less its
\* mtmd_input_chunks_free calls.
Allocations(calls) ==
    Cardinality({i \in 1..Len(calls) :
                   calls[i].fn = "mtmd_input_chunks_init" /\ calls[i].ret # NullPtr})
Releases(calls) ==
    Cardinality({i \in 1..Len(calls) : calls[i].fn = "mtmd_input_chunks_free"})
Unreleased(calls) == Allocations(calls) - Releases(calls)

ChunksInit == Native("mtmd_input_chunks_init", 1, 0)
ChunksInitNull == Native("mtmd_input_chunks_init", NullPtr, 0)
ChunksFree == N("mtmd_input_chunks_free")

\* ----------------------------------------------------- multimodalTokenize
\* The checks made before any native call.
TokenizeCheck(c, t, bm) ==
    IF c = "missing" \/ t = "missing" \/ bm = "missing"
    THEN Err("TypeError", "Expected context object, text string, and MultiBitmaps object")
    ELSE IF c = "foreign"
    THEN Err("Error", "Failed to unwrap AddonContext object for tokenization")
    ELSE IF disposed
    THEN Err("Error", "Llama context has been disposed (for tokenization)")
    ELSE IF ~ctx
    THEN Err("Error", "Invalid llama_context pointer (ctx member is null)")
    ELSE IF ~multimodal_ctx
    THEN MctxNullError("Error")
    ELSE IF bm = "foreign"
    THEN Err("Error", "Invalid MultiBitmaps object")
    ELSE NoError

TokenizeFailure(status) ==
    ErrCode("Error", "Failed to tokenize multimodal input. Error code: ", status)

\* The handler after its checks: the chunk list is held by a scoped wrapper,
\* whose destructor frees it on every return.
TokenizeBody(chunksOk, status, out) ==
    IF ~chunksOk
    THEN Call("tokenize", 0, "",
              Err("Error", "Failed to initialize input chunks for tokenization"),
              Undefined, <<ChunksInitNull>>)
    ELSE IF status # 0
    THEN Call("tokenize", 0, "", TokenizeFailure(status), Undefined,
              <<ChunksInit, Native("mtmd_tokenize", status, 0), ChunksFree>>)
    ELSE Call("tokenize", 0, "", NoError, Value([chunks |-> JsChunks(out)]),
              <<ChunksInit, Native("mtmd_tokenize", status, out), ChunksFree>>)

\* What the library does in one tokenize call: the chunk list allocation
\* fails, the tokenizer fails with a status, or it fills in a chunk list.
TokenizeOutcomes ==
    {[chunksOk |-> FALSE, status |-> 0, out |-> <<>>]}
      \cup {[chunksOk |-> TRUE, status |-> st, out |-> <<>>] : st \in TokenizeStatuses \ {0}}
      \cup {[chunksOk |-> TRUE, status |-> 0, out |-> o] : o \in TokenizerOutputs}
NoOutcome == [chunksOk |-> FALSE, status |-> 0, out |-> <<>>]

MultimodalTokenize(a, o) ==
    /\ TokenizeCheck(a.c, a.t, a.bm) # NoError => o = NoOutcome
    /\ LET e == TokenizeCheck(a.c, a.t, a.bm) IN
       last' = IF e # NoError
               THEN Call("tokenize", 0, "", e, Undefined, <<>>)
               ELSE TokenizeBody(o.chunksOk, o.status, o.out)
    /\ UNCHANGED <<session, n_cur, chain, bitmapState, adds, live_chunks>>

\* ----------------------------------------------- multimodalEvaluateChunks
\* The second argument: nothing or a non-object, an object without a
\* "chunks" property, or a tokenize result.
ResultArgs == {"missing", "noChunks", "tokenizeResult"}

EvaluateChunksCheck(c, r) ==
    IF c = "missing" \/ r = "missing"
    THEN Err("TypeError", "Expected context object and tokenize result object")
    ELSE IF c = "foreign"
    THEN Err("TypeError", "Failed to unwrap AddonContext object for chunk evaluation")
    ELSE IF ~ctx
    THEN Err("TypeError", "Llama context has been disposed (for chunk evaluation)")
    ELSE IF ~multimodal_ctx
    THEN MctxNullError("TypeError")
    ELSE IF r = "noChunks"
    THEN Err("TypeError", "Tokenize result must have 'chunks' property")
    ELSE NoError

\* The handler after its checks: it allocates a chunk list and raises.
EvaluateChunksBody_Evaluates(chunksOk) ==
    IF ~chunksOk
    THEN Call("evaluateChunks", 0, "",
              Err("Error", "Failed to initialize input chunks for evaluation"),
              Undefined, <<ChunksInitNull>>)
    ELSE Call("evaluateChunks", 0, "", NoError, Value([success |-> TRUE]),
              <<ChunksInit, Native("mtmd_helper_eval_chunks", 0, n_cur), ChunksFree>>)

EvaluateChunksBody(chunksOk) ==
    IF ~chunksOk
    THEN Call("evaluateChunks", 0, "",
              Err("Error", "Failed to initialize input chunks for evaluation"),
              Undefined, <<ChunksInitNull>>)
    ELSE Call("evaluateChunks", 0, "",
              Err("Error", "Chunk evaluation requires re-tokenization"),
              Undefined, <<ChunksInit>>)

\* chunksOk: mtmd_input_chunks_init returns a list.
MultimodalEvaluateChunks(c, r, chunksOk) ==
    /\ (c = "context" \/ r = "tokenizeResult") /\ (c = "foreign" => r = "tokenizeResult")
    /\ EvaluateChunksCheck(c, r) # NoError => ~chunksOk
    /\ chunksOk => live_chunks < MaxChunkLists
    /\ LET e == EvaluateChunksCheck(c, r) IN
       last' = IF e # NoError
               THEN Call("evaluateChunks", 0, "", e, Undefined, <<>>)
               ELSE EvaluateChunksBody(chunksOk)
    /\ live_chunks' = live_chunks + Unreleased(last'.calls)
    /\ UNCHANGED <<session, n_cur, chain, bitmapState, adds>>

\* ------------------------------------------ multimodalTokenizeAndEvaluate
\* The checks made before any native call.
TokenizeAndEvaluateCheck_NoMctxCheck(c, t, bm) ==
    IF c = "missing" \/ t = "missing" \/ bm = "missing"
    THEN Err("TypeError", "Expected context object, text string, and MultiBitmaps object")
    ELSE IF c = "foreign"
    THEN Err("TypeError", "Failed to unwrap AddonContext object for tokenize and evaluate")
    ELSE IF ~ctx
    THEN Err("TypeError", "Llama context has been disposed (for tokenize and evaluate)")
    ELSE IF bm = "foreign"
    THEN Err("TypeError", "Invalid MultiBitmaps object")
    ELSE NoError

TokenizeAndEvaluateCheck(c, t, bm) ==
    IF c = "missing" \/ t = "missing" \/ bm = "missing"
    THEN Err("TypeError", "Expected context object, text string, and MultiBitmaps object")
    ELSE IF c = "foreign"
    THEN Err("TypeError", "Failed to unwrap AddonContext object for tokenize and evaluate")
    ELSE IF ~ctx
    THEN Err("TypeError", "Llama context has been disposed (for tokenize and evaluate)")
    ELSE IF ~multimodal_ctx
    THEN MctxNullError("TypeError")
    ELSE IF bm = "foreign"
    THEN Err("TypeError", "Invalid MultiBitmaps object")
    ELSE NoError

\* The status codes of mtmd_helper_eval_chunks.
EvalStatuses == {0, 1}

\* What the local new_n_past holds when mtmd_helper_eval_chunks returns: its
\* initial value 0 when the evaluator did not write it, or else a position
\* at or after the start position it was given.
EvalOutputs(n_past) == {0} \cup (n_past..MaxPos)

EvaluateFailure(eval_result) ==
    ErrCode("Error", "Failed to evaluate multimodal chunks. Error code: ", eval_result)

\* The native calls of the handler once the chunk list is allocated.
TaeCalls_NoFreeOnEvalFailure(tokenize_result, eval_result, new_n_past) ==
    IF tokenize_result # 0
    THEN <<ChunksInit, Native("mtmd_tokenize", tokenize_result, 0), ChunksFree>>
    ELSE IF eval_result # 0
    THEN <<ChunksInit, Native("mtmd_tokenize", tokenize_result, 0),
           Native("mtmd_helper_eval_chunks", eval_result, new_n_past)>>
    ELSE <<ChunksInit, Native("mtmd_tokenize", tokenize_result, 0),
           Native("mtmd_helper_eval_chunks", eval_result, new_n_past), ChunksFree>>

TaeCalls_EvalAfterFailedTokenize(tokenize_result, eval_result, new_n_past) ==
    <<ChunksInit, Native("mtmd_tokenize", tokenize_result, 0),
      Native("mtmd_helper_eval_chunks", eval_result, new_n_past), ChunksFree>>

TaeCalls(tokenize_result, eval_result, new_n_past) ==
    IF tokenize_result # 0
    THEN <<ChunksInit, Native("mtmd_tokenize", tokenize_result, 0), ChunksFree>>
    ELSE <<ChunksInit, Native("mtmd_tokenize", tokenize_result, 0),
           Native("mtmd_helper_eval_chunks", eval_result, new_n_past), ChunksFree>>

\* AddonContext::n_cur when the handler returns.
TaeCounter_WritesOnFailure(tokenize_result, eval_result, new_n_past) ==
    IF tokenize_result # 0 THEN n_cur ELSE new_n_past

TaeCounter_WritesOnTokenizeFailure(tokenize_result, eval_result, new_n_past) ==
    IF eval_result # 0 THEN n_cur ELSE new_n_past

TaeCounter(tokenize_result, eval_result, new_n_past) ==
    IF tokenize_result # 0 \/ eval_result # 0 THEN n_cur ELSE new_n_past

\* The result object of a successful call.
TaeResult_CountFromZero(n_past, new_n_past) ==
    [success |-> TRUE, tokensProcessed |-> new_n_past,
     newSequenceLength |-> new_n_past, previousSequenceLength |-> n_past]

TaeResult_PreviousFromZero(n_past, new_n_past) ==
    [success |-> TRUE, tokensProcessed |-> new_n_past - n_past,
     newSequenceLength |-> new_n_past, previousSequenceLength |-> 0]

TaeResult(n_past, new_n_past) ==
    [success |-> TRUE, tokensProcessed |-> new_n_past - n_past,
     newSequenceLength |-> new_n_past, previousSequenceLength |-> n_past]

\* The error raised, if any, once the chunk list is allocated.
TaeError_TokenizerCodeDropped(tokenize_result, eval_result) ==
    IF tokenize_result # 0 THEN TokenizeFailure(0)
    ELSE IF eval_result # 0 THEN EvaluateFailure(eval_result)
    ELSE NoError

TaeError(tokenize_result, eval_result) ==
    IF tokenize_result # 0 THEN TokenizeFailure(tokenize_result)
    ELSE IF eval_result # 0 THEN EvaluateFailure(eval_result)
    ELSE NoError

\* What the library does in one tokenizeAndEvaluate call: as for tokenize,
\* and then the evaluator returns a status and leaves a value in new_n_past.
EvaluateOutcomes ==
    {[chunksOk |-> FALSE, tokenize_result |-> 0, eval_result |-> 0, new_n_past |-> 0]}
      \cup {[chunksOk |-> TRUE, tokenize_result |-> st, eval_result |-> 0, new_n_past |-> 0] :
               st \in TokenizeStatuses \ {0}}
      \cup {[chunksOk |-> TRUE, tokenize_result |-> 0, eval_result |-> r, new_n_past |-> v] :
               r \in EvalStatuses, v \in EvalOutputs(n_cur)}
NoEvaluateOutcome ==
    [chunksOk |-> FALSE, tokenize_result |-> 0, eval_result |-> 0, new_n_past |-> 0]

MultimodalTokenizeAndEvaluate(a, o) ==
    /\ TokenizeAndEvaluateCheck(a.c, a.t, a.bm) # NoError => o = NoEvaluateOutcome
    /\ LET e == TokenizeAndEvaluateCheck(a.c, a.t, a.bm)
           n_past == n_cur
       IN  IF e # NoError
           THEN /\ last' = Call("tokenizeAndEvaluate", 0, "", e, Undefined, <<>>)
                /\ UNCHANGED n_cur
           ELSE IF ~o.chunksOk
           THEN /\ last' = Call("tokenizeAndEvaluate", 0, "",
                                Err("Error", "Failed to initialize input chunks for tokenize and evaluate"),
                                Undefined, <<ChunksInitNull>>)
                /\ UNCHANGED n_cur
           ELSE /\ n_cur' = TaeCounter(o.tokenize_result, o.eval_result, o.new_n_past)
                /\ last' = Call("tokenizeAndEvaluate", 0, "",
                                TaeError(o.tokenize_result, o.eval_result),
                                IF TaeError(o.tokenize_result, o.eval_result) = NoError
                                THEN Value(TaeResult(n_past, o.new_n_past))
                                ELSE Undefined,
                                TaeCalls(o.tokenize_result, o.eval_result, o.new_n_past))
    /\ chain' = IF last'.error = NoError
                THEN [chain EXCEPT !.newSequenceLength = last'.ret[1].newSequenceLength,
                                   !.tokensProcessed = @ + last'.ret[1].tokensProcessed]
                ELSE chain
    /\ live_chunks' = live_chunks + Unreleased(last'.calls)
    /\ UNCHANGED <<session, bitmapState, adds>>

\* ------------------------------------------------------------------- Next
Next ==
    \/ \E b \in wrappers : GetData(b)
    \/ \E b \in wrappers : GetDimensions(b)
    \/ \E b \in wrappers : GetId(b)
    \/ \E b \in wrappers, arg \in SetIdArgs : SetId(b, arg)
    \/ \E b \in wrappers : Dispose(b)
    \/ CreateMultimodalBitmaps
    \/ \E arg \in AddArgs, copyOk \in BOOLEAN : AddBitmap(arg, copyOk)
    \/ GetBitmapCount
    \/ DisposeBitmaps
    \/ \E c \in CtxArgs, isBuffer \in BOOLEAN, buf \in Buffers :
         InitMultimodalBitmapFromBuffer(c, isBuffer, buf)
    \/ \E a \in PromptArgs, o \in TokenizeOutcomes : MultimodalTokenize(a, o)
    \/ \E c \in CtxArgs, r \in ResultArgs, chunksOk \in BOOLEAN :
         MultimodalEvaluateChunks(c, r, chunksOk)
    \/ \E a \in PromptArgs, o \in EvaluateOutcomes : MultimodalTokenizeAndEvaluate(a, o)

Spec == Init /\ [][Next]_vars

\* ================================================================ claims
Succeeded == last.error = NoError
Raised == last.error # NoError /\ last.ret = Undefined
IsTae == last.op = "tokenizeAndEvaluate"
Accessors == {"getData", "getDimensions", "getId", "setId"}

\* The native calls of the last bridge call to the function fn.
CallsTo(fn) == {i \in 1..Len(last.calls) : last.calls[i].fn = fn}
EvaluatorFailed ==
    \E i \in CallsTo("mtmd_helper_eval_chunks") : last.calls[i].ret # 0
\* C1: when the evaluator of tokenizeAndEvaluate returns a nonzero status,
\* n_cur after the call equals n_cur before it, whatever the evaluator left
\* in new_n_past, and the call raises an error and returns no result.
C1_EvalFailureKeepsCounter ==
    (IsTae /\ EvaluatorFailed) => (n_cur = last.n_before /\ Raised)

\* A failed evaluation that left in new_n_past a value other than the counter.
C1_Witness ==
    /\ IsTae
    /\ \E i \in CallsTo("mtmd_helper_eval_chunks") :
         last.calls[i].ret # 0 /\ last.calls[i].out # last.n_before
    /\ last.n_before > 0

\* C2: a successful tokenizeAndEvaluate returns previousSequenceLength = the
\* counter at its entry, newSequenceLength = the position the evaluator
\* returned, tokensProcessed = their difference and success = true, and the
\* counter after the call is newSequenceLength.
C2_SuccessResult ==
    (IsTae /\ Succeeded) =>
        /\ Len(last.ret) = 1
        /\ last.ret[1].success = TRUE
        /\ last.ret[1].previousSequenceLength = last.n_before
        /\ \E i \in CallsTo("mtmd_helper_eval_chunks") :
             last.calls[i].ret = 0 /\ last.ret[1].newSequenceLength = last.calls[i].out
        /\ n_cur = last.ret[1].newSequenceLength
        /\ last.ret[1].tokensProcessed =
             last.ret[1].newSequenceLength - last.ret[1].previousSequenceLength

\* A successful call that started from a position after 0.
C2_Witness ==
    IsTae /\ Succeeded /\ last.n_before > 0 /\ n_cur >= last.n_before

\* C3: the counter never decreases over a bridge call, and a successful
\* tokenizeAndEvaluate reports tokensProcessed >= 0.
C3_CounterNeverDecreases ==
    /\ n_cur >= last.n_before
    /\ (IsTae /\ Succeeded) => last.ret[1].tokensProcessed >= 0

\* C4: when mtmd_tokenize returns a nonzero status, in tokenize and in
\* tokenizeAndEvaluate, the call raises an error that carries that status,
\* the evaluator is not called, and the counter is the one at entry.
C4_TokenizerFailure ==
    \A i \in CallsTo("mtmd_tokenize") :
        last.calls[i].ret # 0 =>
            /\ last.op \in {"tokenize", "tokenizeAndEvaluate"}
            /\ Raised
            /\ last.error = TokenizeFailure(last.calls[i].ret)
            /\ CallsTo("mtmd_helper_eval_chunks") = {}
            /\ n_cur = last.n_before

\* tokenizeAndEvaluate, past position 0, whose tokenizer returned status 2.
C4_Witness ==
    /\ IsTae
    /\ last.n_before > 0
    /\ \E i \in CallsTo("mtmd_tokenize") : last.calls[i].ret = 2

\* C5: dispose never raises and leaves the MultiBitmap without a handle,
\* however often it is called; every accessor (setId with any argument) on a
\* MultiBitmap without a handle raises the same "disposed" error and makes
\* no native call.
C5_DisposeIdempotent ==
    /\ last.op = "dispose" =>
         (Succeeded /\ bitmap_wrapper[last.target] = NullPtr)
    /\ (last.op \in Accessors /\ bitmap_wrapper[last.target] = NullPtr) =>
         (last.error = DisposedError /\ Raised /\ last.calls = <<>>)

\* setId without a string argument on a MultiBitmap that was disposed (its
\* handle is freed).
C5_Witness ==
    /\ last.op = "setId"
    /\ last.arg # "string"
    /\ bitmap_wrapper[last.target] = NullPtr
    /\ \E h \in Handles : heap[h].state = "freed"

\* A dispose of a MultiBitmap that was disposed before.
C5_WitnessRepeatedDispose ==
    last.op = "dispose" /\ last.calls = <<>>

\* C6: a successful addBitmap leaves in the collection a live native bitmap
\* other than the original's, with the original's width, height, data and
\* id; a dispose or setId of a MultiBitmap changes neither the collection's
\* entries nor the bitmaps behind them, which stay live.
C6_AddedCopy ==
    (last.op = "addBitmap" /\ Succeeded) =>
        LET h == entries[Len(entries)]
            p == bitmap_wrapper[last.target]
        IN  /\ h # p
            /\ h \in Handles /\ Live(h) /\ Live(p)
            /\ heap[h].nx = heap[p].nx /\ heap[h].ny = heap[p].ny
            /\ heap[h].data = heap[p].data
            /\ heap[h].id = heap[p].id

C6_CopyIndependent ==
    (last'.op \in {"dispose", "setId"}) =>
        /\ entries' = entries
        /\ \A i \in 1..Len(entries) : heap'[entries[i]] = heap[entries[i]]

C7_CountIsAdds ==
    /\ collection => Len(entries) = adds
    /\ last.op = "getBitmapCount" => (Succeeded /\ last.ret = Value(adds))
    /\ last.op = "createMultimodalBitmaps" => Len(entries) = 0
    /\ (last.op = "addBitmap"
          /\ (last.target = 0 \/ bitmap_wrapper[last.target] = NullPtr)) => Raised
    /\ last.op = "disposeBitmaps" => (Succeeded /\ Len(entries) = 0)

\* An addBitmap of a disposed MultiBitmap fails on a collection that holds
\* one entry from an earlier addBitmap.
C7_Witness ==
    /\ last.op = "addBitmap"
    /\ last.target # 0
    /\ Raised
    /\ Len(entries) = 1

\* C8: a tokenize or tokenizeAndEvaluate call frees the chunk list it
\* allocated exactly once, after allocating it, before it returns, whether
\* the tokenizer fails, the evaluator fails or the call succeeds; a call
\* that got no chunk list frees none.
C8_ChunkListReleased ==
    last.op \in {"tokenize", "tokenizeAndEvaluate"} =>
        /\ Releases(last.calls) = Allocations(last.calls)
        /\ Allocations(last.calls) <= 1
        /\ \A j \in CallsTo("mtmd_input_chunks_free") :
             \E i \in CallsTo("mtmd_input_chunks_init") :
                i < j /\ last.calls[i].ret # NullPtr

\* A tokenizeAndEvaluate call whose evaluator failed and which freed its
\* chunk list.
C8_Witness ==
    IsTae /\ EvaluatorFailed /\ Releases(last.calls) = 1

\* C9: a call whose precondition fails (no multimodal sub-context for
\* initBitmapFromBuffer, tokenize, tokenizeAndEvaluate and evaluateChunks; a
\* source MultiBitmap without a handle for addBitmap; a MultiBitmap without a
\* handle, or a non-string argument of setId, for an accessor) raises an
\* error, makes no native call, and leaves the counter, the MultiBitmaps and
\* the collection as they were.
PreconditionFailed ==
    \/ /\ last.op \in {"initBitmapFromBuffer", "tokenize", "tokenizeAndEvaluate",
                       "evaluateChunks"}
       /\ ~multimodal_ctx
    \/ /\ last.op = "addBitmap"
       /\ last.target # 0
       /\ bitmap_wrapper[last.target] = NullPtr
    \/ /\ last.op \in Accessors
       /\ bitmap_wrapper[last.target] = NullPtr
    \/ /\ last.op = "setId"
       /\ last.arg # "string"

C9_PreconditionStep ==
    PreconditionFailed' =>
        /\ Raised'
        /\ last'.calls = <<>>
        /\ UNCHANGED <<n_cur, wrappers, bitmap_wrapper, collection, entries, heap,
                       live_chunks>>

C9_PreconditionBeforeNativeCalls == [][C9_PreconditionStep]_vars

\* tokenizeAndEvaluate with valid arguments on a session with a model
\* context and no multimodal sub-context.
C9_Witness ==
    /\ IsTae
    /\ ctx /\ ~multimodal_ctx
    /\ last.error = MctxNullError("TypeError")

TokenizeFailed ==
    /\ \E i \in CallsTo("mtmd_tokenize") : last.calls[i].ret # 0
    /\ CallsTo("mtmd_helper_eval_chunks") = {}
    /\ Raised
EvalFailed ==
    /\ \A i \in CallsTo("mtmd_tokenize") : last.calls[i].ret = 0
    /\ EvaluatorFailed
    /\ Raised
Evaluated ==
    /\ \A i \in CallsTo("mtmd_tokenize") : last.calls[i].ret = 0
    /\ \E i \in CallsTo("mtmd_helper_eval_chunks") : last.calls[i].ret = 0
    /\ Succeeded
TerminalStates ==
    (IF TokenizeFailed THEN 1 ELSE 0) + (IF EvalFailed THEN 1 ELSE 0)
      + (IF Evaluated THEN 1 ELSE 0)

\* The tokenizer is called once; the evaluator at most once and only after a
\* tokenizer call that returned 0; the call ends in one terminal state; the
\* counter differs from the one at entry only in Evaluated.
FollowsStateMachine ==
    /\ Cardinality(CallsTo("mtmd_tokenize")) = 1
    /\ Cardinality(CallsTo("mtmd_helper_eval_chunks")) <= 1
    /\ \A j \in CallsTo("mtmd_helper_eval_chunks") :
         \E i \in CallsTo("mtmd_tokenize") : i < j /\ last.calls[i].ret = 0
    /\ TerminalStates = 1
    /\ n_cur # last.n_before => Evaluated

\* A tokenizeAndEvaluate call went through its checks when it made a native
\* call: every check that fails returns before the first one.
PassedPreconditions == IsTae /\ last.calls # <<>>
GotChunkList == PassedPreconditions /\ last.calls[1] = ChunksInit

\* C11 (as stated): every tokenizeAndEvaluate call that passes its
\* preconditions calls the tokenizer exactly once, the evaluator at most once
\* and only after the tokenizer returned 0, ends in exactly one of
\* TokenizeFailed, EvalFailed and Evaluated, and changes the position only
\* in Evaluated.
C11_StateMachineAsStated ==
    PassedPreconditions => FollowsStateMachine

\* C11 (amended): every tokenizeAndEvaluate call that passes its
\* preconditions and is given a chunk list by mtmd_input_chunks_init follows
\* the state machine; a call that is given none raises an error without
\* calling the tokenizer or the evaluator and leaves the position unchanged.
C11_StateMachine ==
    /\ GotChunkList => FollowsStateMachine
    /\ (PassedPreconditions /\ ~GotChunkList) =>
          /\ last.calls = <<ChunksInitNull>>
          /\ Raised
          /\ n_cur = last.n_before

\* The three terminal states are all reached: this one is EvalFailed, after
\* an Evaluated call moved the position.
C11_Witness ==
    GotChunkList /\ EvalFailed /\ last.n_before > 0 /\ chain.tokensProcessed > 0

\* The owners of native bitmap handles: the MultiBitmap objects that hold
\* one, and the entries of the collection.
Owners ==
    {<<"bitmap", b>> : b \in {w \in wrappers : bitmap_wrapper[w] # NullPtr}}
      \cup {<<"entry", i>> : i \in 1..Len(entries)}
Held(o) == IF o[1] = "bitmap" THEN bitmap_wrapper[o[2]] ELSE entries[o[2]]

\* No handle has two owners, and every handle an owner holds is live.
ExclusiveOwners ==
    /\ \A o1, o2 \in Owners : o1 # o2 => Held(o1) # Held(o2)
    /\ \A o \in Owners : Held(o) \in Handles /\ Live(Held(o))

\* One bridge call: each of its mtmd_bitmap_free calls releases a handle of
\* its own that was live, a released handle stays released, and the native
\* bitmaps the call reads (through a MultiBitmap, or the collection's when
\* it calls the tokenizer) are live when it starts.
ReleasedOnceStep ==
    /\ Cardinality({i \in 1..Len(last'.calls) : last'.calls[i].fn = "mtmd_bitmap_free"})
         = Cardinality({h \in Handles : Live(h) /\ heap'[h].state = "freed"})
    /\ \A h \in Handles : heap[h].state = "freed" => heap'[h] = heap[h]
    /\ (last'.op \in Accessors \cup {"addBitmap"} /\ last'.calls # <<>>) =>
          (bitmap_wrapper[last'.target] \in Handles /\ Live(bitmap_wrapper[last'.target]))
    /\ (\E i \in 1..Len(last'.calls) : last'.calls[i].fn = "mtmd_tokenize") =>
          \A i \in 1..Len(entries) : Live(entries[i])

BitmapLifecycleStep ==
    /\ (last'.op = "initBitmapFromBuffer" /\ last'.ret # Undefined) =>
          LET b == last'.ret[1] IN
          /\ multimodal_ctx /\ last'.error = NoError
          /\ b \notin wrappers /\ wrappers' = wrappers \cup {b}
          /\ bitmap_wrapper'[b] \in Handles
          /\ heap[bitmap_wrapper'[b]].state = "unalloc"
          /\ heap'[bitmap_wrapper'[b]].state = "live"
          /\ last'.calls = <<Native("mtmd_helper_bitmap_init_from_buf",
                                    bitmap_wrapper'[b], 0)>>
          /\ \A o \in wrappers : bitmap_wrapper'[o] = bitmap_wrapper[o]
    /\ (last'.op = "initBitmapFromBuffer"
          /\ (~multimodal_ctx
                \/ \E i \in 1..Len(last'.calls) :
                      /\ last'.calls[i].fn = "mtmd_helper_bitmap_init_from_buf"
                      /\ last'.calls[i].ret = NullPtr)) =>
          /\ last'.error # NoError /\ last'.ret = Undefined
          /\ wrappers' = wrappers /\ bitmap_wrapper' = bitmap_wrapper /\ heap' = heap
    /\ \A b \in wrappers' :
          \/ bitmap_wrapper'[b] = NullPtr
          \/ bitmap_wrapper'[b] \in Handles /\ heap'[bitmap_wrapper'[b]].state = "live"
    /\ \A b \in wrappers : bitmap_wrapper[b] = NullPtr => bitmap_wrapper'[b] = NullPtr

\* C13: a MultiBitmap returned by initBitmapFromBuffer is a new object bound
\* to the one handle the decoder returned; an initBitmapFromBuffer that
\* fails (no multimodal sub-context, or the decoder returns null) returns no
\* MultiBitmap and binds nothing; a MultiBitmap is bound to a live handle or
\* has none; one that has none never gets one again.
C13_BitmapLifecycle ==
    [][BitmapLifecycleStep]_vars

\* The decoder rejects a buffer while the host holds a disposed MultiBitmap,
\* which stays without a handle.
C13_Witness ==
    /\ last.op = "initBitmapFromBuffer"
    /\ last.calls = <<Native("mtmd_helper_bitmap_init_from_buf", NullPtr, 0)>>
    /\ last.ret = Undefined
    /\ \E b \in wrappers : bitmap_wrapper[b] = NullPtr
    /\ \E h \in Handles : heap[h].state = "freed"

\* The native chunk list the tokenizer of the last call filled in.
NativeChunks ==
    LET i == CHOOSE j \in CallsTo("mtmd_tokenize") : TRUE IN last.calls[i].out

\* The element js of the returned array describes the native chunk c.
Describes(js, c) ==
    /\ js.type = c.type
    /\ c.type \in {MTMD_INPUT_CHUNK_TYPE_TEXT, MTMD_INPUT_CHUNK_TYPE_IMAGE}
    /\ c.type = MTMD_INPUT_CHUNK_TYPE_TEXT =>
          /\ js.imageInfo = Undefined
          /\ Len(js.tokens) = 1
          /\ Len(js.tokens[1]) = Len(c.tokens)
          /\ \A k \in 1..Len(c.tokens) : js.tokens[1][k] = c.tokens[k]
    /\ c.type = MTMD_INPUT_CHUNK_TYPE_IMAGE =>
          /\ js.tokens = Undefined
          /\ Len(js.imageInfo) = 1
          /\ js.imageInfo[1].tokenCount = c.image[1].n_tokens
          /\ js.imageInfo[1].nx = c.image[1].nx
          /\ js.imageInfo[1].ny = c.image[1].ny
          /\ js.imageInfo[1].id = c.image[1].id
          /\ js.imageInfo[1].nPos = c.image[1].n_pos

\* C14: the chunks array a successful tokenize returns has the length of
\* the native chunk list the tokenizer filled in, and its element i
\* describes native chunk i: a text chunk with its token ids in order, or an
\* image chunk with imageInfo {tokenCount, nx, ny, id, nPos}.
C14_ChunksInOrder ==
    (last.op = "tokenize" /\ Succeeded) =>
        /\ CallsTo("mtmd_tokenize") # {}
        /\ Len(last.ret) = 1
        /\ Len(last.ret[1].chunks) = Len(NativeChunks)
        /\ \A i \in 1..Len(NativeChunks) :
             Describes(last.ret[1].chunks[i], NativeChunks[i])

\* A tokenize that returned text, image, text, the two text chunks being
\* different and the second one holding two tokens.
C14_Witness ==
    /\ last.op = "tokenize" /\ Succeeded
    /\ Len(last.ret[1].chunks) = 3
    /\ last.ret[1].chunks[2].imageInfo # Undefined
    /\ last.ret[1].chunks[1].tokens # last.ret[1].chunks[3].tokens
    /\ Len(last.ret[1].chunks[3].tokens[1]) = 2

\* C15: tokenize and tokenizeAndEvaluate both reject a session that is
\* marked disposed or has no model context: the call raises an error, calls
\* neither the tokenizer nor the evaluator, and leaves the counter as it was.
C15_SameLivenessCheck ==
    (last.op \in {"tokenize", "tokenizeAndEvaluate"} /\ (disposed \/ ~ctx)) =>
        /\ Raised
        /\ CallsTo("mtmd_tokenize") = {}
        /\ CallsTo("mtmd_helper_eval_chunks") = {}
        /\ n_cur = last.n_before

\* The part of C15 that is about tokenize alone.
C15_TokenizeRejects ==
    (last.op = "tokenize" /\ (disposed \/ ~ctx)) =>
        (Raised /\ last.calls = <<>> /\ n_cur = last.n_before)

\* One bridge call: the counter changes only in a tokenizeAndEvaluate that
\* succeeds, and tokenize and tokenizeAndEvaluate leave the collection, its
\* entries and the bitmaps behind them as they were.
CounterFrameStep ==
    /\ n_cur' # n_cur =>
          (last'.op = "tokenizeAndEvaluate" /\ last'.error = NoError)
    /\ last'.op \in {"tokenize", "tokenizeAndEvaluate"} =>
          /\ collection' = collection
          /\ entries' = entries
          /\ \A i \in 1..Len(entries) : heap'[entries[i]] = heap[entries[i]]

\* C16: the only bridge operation that changes the position counter is a
\* successful tokenizeAndEvaluate (initBitmapFromBuffer, every MultiBitmap
\* and MultiBitmaps operation, tokenize, evaluateChunks and every failed
\* tokenizeAndEvaluate leave it unchanged); tokenize and
\* tokenizeAndEvaluate leave the collection's count and entries unchanged.
C16_OnlySuccessMovesCounter ==
    [][CounterFrameStep]_vars

\* A tokenizeAndEvaluate whose tokenizer failed, past position 0, on a
\* collection that holds an entry.
C16_Witness ==
    /\ IsTae
    /\ \E i \in CallsTo("mtmd_tokenize") : last.calls[i].ret # 0
    /\ last.n_before > 0
    /\ n_cur = last.n_before
    /\ Len(entries) = 1

\* One bridge call: a successful tokenizeAndEvaluate reports as
\* previousSequenceLength the newSequenceLength of the successful call
\* before it (the initial counter when there was none), and after every
\* call the counter is the newSequenceLength of the last successful call and
\* the initial counter plus the tokensProcessed of all successful calls.
ChainStep ==
    /\ (last'.op = "tokenizeAndEvaluate" /\ last'.error = NoError) =>
          last'.ret[1].previousSequenceLength = chain.newSequenceLength
    /\ n_cur' = chain'.newSequenceLength
    /\ n_cur' = chain'.initial + chain'.tokensProcessed

\* C17: with the calls on a session serialized, the previousSequenceLength
\* of each successful tokenizeAndEvaluate is the newSequenceLength of the
\* most recent earlier successful one (or the initial counter), whatever
\* failed calls, tokenize calls or bitmap operations came between; the
\* counter is the initial value plus the sum of tokensProcessed of the
\* successful calls.
C17_PositionsChain ==
    [][ChainStep]_vars

\* A second successful call, after a first one that moved the position
\* past 0.
C17_Witness ==
    /\ IsTae /\ Succeeded
    /\ last.ret[1].previousSequenceLength > 0
    /\ chain.tokensProcessed = last.ret[1].newSequenceLength
    /\ chain.tokensProcessed > last.ret[1].tokensProcessed

\* C18: multimodalEvaluateChunks releases every chunk list it allocates
\* before it returns: its mtmd_input_chunks_free calls match its
\* allocations, and after any number of calls no chunk list is left
\* allocated.
C18_EvaluateChunksReleases ==
    /\ last.op = "evaluateChunks" => Unreleased(last.calls) = 0
    /\ live_chunks = 0
====
